---------------------------- MODULE Spec2Model ----------------------------
(***************************************************************************)
(* Model of the reconciliation and persistence path of job_scraper.py:     *)
(* save_two_sheets_to_google_sheets (lines 291-406), its helper            *)
(* _get_or_create_worksheet (281-289) and retry_batch_update (466-491).    *)
(*                                                                         *)
(* A worksheet is a sequence of rows; a row is a job record reduced to the *)
(* two columns the reconciliation reads: job_url (the dedup key) and       *)
(* date_posted, which also stands for "the other fields" of a record.      *)
(* date_posted 0 is a missing or unparseable date (NaT).                   *)
(***************************************************************************)
EXTENDS Integers, Sequences, FiniteSets, TLC

VARIABLES
    worksheets,     \* titles of the worksheets that exist in the spreadsheet
    rows,           \* [title -> rows stored in that worksheet]
    runs,           \* number of runs started so far
    pc,             \* position of the run inside save_two_sheets_to_google_sheets
    today_df,       \* parameter today_df of the current run
    combined,       \* local `combined` (line 341/344/347)
    master0,        \* rows of Master when the current run started (history)
    read_result,    \* "none" | "ok" | "failed": outcome of line 339 in this run
    prev_urls,      \* job_url column of the previous run's batch, if it completed
    call,           \* index of the batchUpdate call of lines 360-406 in progress
    swallowed,      \* a transient sink failure was caught and the run went on
    error,          \* the exception that left save_two_sheets_to_google_sheets
    rb_pc,          \* retry_batch_update: "idle" | "call" | "returned" | "raised"
    attempt,        \* retry_batch_update: loop variable `attempt`
    delay,          \* retry_batch_update: local `delay`
    sleeps,         \* retry_batch_update: arguments of time.sleep so far
    executes,       \* retry_batch_update: number of calls of execute() so far
    last_err,       \* retry_batch_update: outcome of the latest execute()
    raised_err,     \* retry_batch_update: the exception it raised
    max_retries,    \* retry_batch_update: parameter
    initial_delay,  \* retry_batch_update: parameter
    clean_pc,       \* clean_results: position ("off" when it is not under study)
    clean_in,       \* clean_results: the frame it was called with (history)
    clean_df,       \* clean_results: rows of the local `df`
    clean_exc       \* clean_results: the exception it raised, "" if none

vars == <<worksheets, rows, runs, pc, today_df, combined, master0, read_result,
          prev_urls, call, swallowed, error, rb_pc, attempt, delay, sleeps,
          executes, last_err, raised_err, max_retries, initial_delay,
          clean_pc, clean_in, clean_df, clean_exc>>

sheet_vars == <<worksheets, rows>>
run_vars   == <<runs, pc, today_df, combined, master0, read_result, prev_urls,
                call, swallowed, error>>
retry_vars == <<rb_pc, attempt, delay, sleeps, executes, last_err, raised_err>>
retry_args == <<max_retries, initial_delay>>
clean_vars == <<clean_pc, clean_in, clean_df, clean_exc>>

-----------------------------------------------------------------------------
(* Bounds *)

MaxBatch == 2       \* longest today_df
MaxRuns == 2        \* number of runs of save_two_sheets_to_google_sheets
MaxRetriesArg == 3  \* largest max_retries passed to retry_batch_update alone

Urls == {"u1", "u2"}
Dates == {0, 1, 2}
InitialDelays == {1, 2, 3}

(* Program constants: the defaults of retry_batch_update *)
DefaultMaxRetries == 3
DefaultInitialDelay == 2

-----------------------------------------------------------------------------
(* Data *)

Records == [job_url : Urls, date_posted : Dates]

RECURSIVE SeqsUpTo(_, _)
SeqsUpTo(S, n) ==
    IF n = 0 THEN {<<>>}
    ELSE LET shorter == SeqsUpTo(S, n - 1)
         IN  shorter \cup {Append(s, x) : s \in {t \in shorter : Len(t) = n - 1}, x \in S}

Batches == SeqsUpTo(Records, MaxBatch)

today_name == "Today"
master_name == "Master"
Titles == {today_name, master_name}

UrlsOf(s) == {s[i].job_url : i \in 1..Len(s)}
UrlColumn(s) == [i \in 1..Len(s) |-> s[i].job_url]

(* Exceptions a sink operation can raise.  status 0: no status_code. *)
NoError == [type |-> "none", status |-> 0, timeout_msg |-> FALSE]
Errors ==
    { [type |-> "HttpError", status |-> 429, timeout_msg |-> FALSE],
      [type |-> "HttpError", status |-> 503, timeout_msg |-> FALSE],
      [type |-> "HttpError", status |-> 404, timeout_msg |-> FALSE],
      [type |-> "HttpError", status |-> 408, timeout_msg |-> TRUE],
      [type |-> "Exception", status |-> 0, timeout_msg |-> TRUE],
      [type |-> "Exception", status |-> 0, timeout_msg |-> FALSE] }

(* The failure classes the specification calls transient. *)
Transient(e) ==
    \/ e.status = 429
    \/ (500 <= e.status /\ e.status < 600)
    \/ e.timeout_msg

-----------------------------------------------------------------------------
(* pandas operations used by the reconciliation *)

(* DataFrame.drop_duplicates(subset=["job_url"]): keep="first" *)
RECURSIVE drop_duplicates(_)
drop_duplicates(s) ==
    IF s = <<>> THEN <<>>
    ELSE LET n == Len(s)
             init == drop_duplicates(SubSeq(s, 1, n - 1))
         IN  IF s[n].job_url \in UrlsOf(init) THEN init ELSE Append(init, s[n])

(* Combine with the concat of line 341 left out: today's rows never join Master *)
Combine_NoAppend(existing_master, df) ==
    IF existing_master # <<>>
    THEN drop_duplicates(existing_master)
    ELSE df

(* lines 340-344: the value of `combined` when the read of Master succeeded *)
Combine(existing_master, df) ==
    IF existing_master # <<>>
    THEN drop_duplicates(existing_master \o df)
    ELSE df

-----------------------------------------------------------------------------
(* Initial state: a spreadsheet with no worksheet yet, nothing running. *)

Init ==
    /\ worksheets = {}
    /\ rows = [t \in Titles |-> <<>>]
    /\ runs = 0
    /\ pc = "idle"
    /\ today_df = <<>>
    /\ combined = <<>>
    /\ master0 = <<>>
    /\ read_result = "none"
    /\ prev_urls = <<"-">>
    /\ call = 0
    /\ swallowed = FALSE
    /\ error = NoError
    /\ rb_pc = "idle"
    /\ attempt = 0
    /\ delay = 0
    /\ sleeps = <<>>
    /\ executes = 0
    /\ last_err = NoError
    /\ raised_err = NoError
    /\ max_retries = DefaultMaxRetries
    /\ initial_delay = DefaultInitialDelay
    /\ clean_pc = "off"
    /\ clean_in = [cols |-> {}, rows |-> <<>>]
    /\ clean_df = <<>>
    /\ clean_exc = ""


-----------------------------------------------------------------------------
(* retry_batch_update, lines 466-491 *)

(* Retriable with the message test applied to every exception, HttpError included *)
Retriable_AnyTimeoutMessage(e) ==
    \/ e.status # 0 /\ (e.status = 429 \/ (500 <= e.status /\ e.status < 600))
    \/ e.timeout_msg

(* lines 476-478 and 485-487: the failures the loop retries.  An HttpError  *)
(* is caught by the first except clause, so only its status_code counts;    *)
(* any other exception is retried when its message mentions a timeout.      *)
Retriable(e) ==
    IF e.type = "HttpError"
    THEN e.status # 0 /\ (e.status = 429 \/ (500 <= e.status /\ e.status < 600))
    ELSE e.timeout_msg

(* CanRetry with an off-by-one comparison *)
CanRetry_OffByOne(a, m) == a <= m

(* lines 479 and 487: `attempt < max_retries` *)
CanRetry(a, m) == a < m

(* line 481/489: `delay *= 2` *)
NextDelay(d) == d * 2

(* lines 471-472: entry of retry_batch_update, as a predicate on the next state *)
RetryBegin(m, d) ==
    /\ rb_pc' = "call"
    /\ attempt' = 1
    /\ delay' = d
    /\ sleeps' = <<>>
    /\ executes' = 0
    /\ last_err' = NoError
    /\ raised_err' = NoError

RetryReset ==
    /\ rb_pc' = "idle"
    /\ attempt' = 0
    /\ delay' = 0
    /\ sleeps' = <<>>
    /\ executes' = 0
    /\ last_err' = NoError
    /\ raised_err' = NoError

(* One iteration of the for loop of lines 472-491, or the fall off its end. *)
retry_batch_update_step ==
    /\ rb_pc = "call"
    /\ IF attempt > max_retries
       THEN \* range(1, max_retries + 1) is exhausted: the function returns None
            /\ rb_pc' = "returned"
            /\ UNCHANGED <<attempt, delay, sleeps, executes, last_err, raised_err>>
       ELSE \E outcome \in Errors \cup {NoError} :
            /\ executes' = executes + 1
            /\ last_err' = outcome
            /\ IF outcome = NoError
               THEN /\ rb_pc' = "returned"
                    /\ UNCHANGED <<attempt, delay, sleeps, raised_err>>
               ELSE IF Retriable(outcome) /\ CanRetry(attempt, max_retries)
               THEN /\ sleeps' = Append(sleeps, delay)
                    /\ delay' = NextDelay(delay)
                    /\ attempt' = attempt + 1
                    /\ UNCHANGED <<rb_pc, raised_err>>
               ELSE /\ rb_pc' = "raised"
                    /\ raised_err' = outcome
                    /\ UNCHANGED <<attempt, delay, sleeps>>
    /\ UNCHANGED <<sheet_vars, run_vars, retry_args, clean_vars>>

(* A call of retry_batch_update on its own, with arguments of the caller's choice. *)
retry_batch_update(m, d) ==
    /\ pc = "standalone"
    /\ rb_pc \in {"idle", "returned", "raised"}
    /\ max_retries' = m
    /\ initial_delay' = d
    /\ RetryBegin(m, d)
    /\ UNCHANGED <<sheet_vars, run_vars, clean_vars>>

-----------------------------------------------------------------------------
(* save_two_sheets_to_google_sheets, lines 291-406 *)

(* lines 291-312: entry.  new_day: the Toronto date changed since the last  *)
(* run, so no worksheet carries today_name yet (worksheets of earlier days  *)
(* are never touched again and are left out of the model).                  *)
save_two_sheets_to_google_sheets(df, new_day) ==
    /\ pc \in {"idle", "done", "failed"}
    /\ runs < MaxRuns
    /\ runs' = runs + 1
    /\ today_df' = df
    /\ master0' = rows[master_name]
    /\ combined' = <<>>
    /\ read_result' = "none"
    /\ prev_urls' = IF pc = "done" THEN UrlColumn(today_df) ELSE <<"-">>
    /\ call' = 0
    /\ swallowed' = FALSE
    /\ error' = NoError
    /\ IF new_day
       THEN /\ worksheets' = worksheets \ {today_name}
            /\ rows' = [rows EXCEPT ![today_name] = <<>>]
       ELSE UNCHANGED sheet_vars
    /\ pc' = "ws_today"
    /\ UNCHANGED <<retry_vars, retry_args, clean_vars>>

(* The exception e leaves save_two_sheets_to_google_sheets. *)
Propagate(e) ==
    /\ pc' = "failed"
    /\ error' = e

(* lines 281-289, called at 315 and 321 *)
get_or_create_worksheet(title) ==
    /\ \/ pc = "ws_today" /\ title = today_name
       \/ pc = "ws_master" /\ title = master_name
    /\ \/ /\ worksheets' = worksheets \cup {title}
          /\ pc' = IF title = today_name THEN "ws_master" ELSE "clear_today"
          /\ UNCHANGED error
       \/ \E e \in Errors : Propagate(e) /\ UNCHANGED worksheets
    /\ UNCHANGED <<rows, runs, today_df, combined, master0, read_result, prev_urls,
                   call, swallowed, retry_vars, retry_args, clean_vars>>

(* line 329 (Today) and line 349 (Master): Worksheet.clear() *)
clear(title) ==
    /\ \/ pc = "clear_today" /\ title = today_name
       \/ pc = "clear_master" /\ title = master_name
    /\ \/ /\ rows' = [rows EXCEPT ![title] = <<>>]
          /\ pc' = IF title = today_name THEN "write_today" ELSE "write_master"
          /\ UNCHANGED error
       \/ \E e \in Errors : Propagate(e) /\ UNCHANGED rows
    /\ UNCHANGED <<worksheets, runs, today_df, combined, master0, read_result,
                   prev_urls, call, swallowed, retry_vars, retry_args, clean_vars>>

(* line 330 (Today, today_df) and line 350 (Master, combined) *)
set_with_dataframe(title) ==
    /\ \/ pc = "write_today" /\ title = today_name
       \/ pc = "write_master" /\ title = master_name
    /\ \/ /\ rows' = [rows EXCEPT ![title] =
                         IF title = today_name THEN today_df ELSE combined]
          /\ pc' = IF title = today_name THEN "freeze_today" ELSE "freeze_master"
          /\ UNCHANGED error
       \/ \E e \in Errors : Propagate(e) /\ UNCHANGED rows
    /\ UNCHANGED <<worksheets, runs, today_df, combined, master0, read_result,
                   prev_urls, call, swallowed, retry_vars, retry_args, clean_vars>>

(* lines 332-335 and 352-355: freeze(rows=1) under `except Exception: pass`; *)
(* after the Master freeze the auto-fit loop starts with its first call.     *)
freeze(title) ==
    /\ \/ pc = "freeze_today" /\ title = today_name
       \/ pc = "freeze_master" /\ title = master_name
    /\ \/ UNCHANGED swallowed
       \/ \E e \in Errors : swallowed' = (swallowed \/ Transient(e))
    /\ IF title = today_name
       THEN /\ pc' = "read_master"
            /\ UNCHANGED <<call, retry_vars>>
       ELSE /\ pc' = "autofit"
            /\ call' = 1
            /\ RetryBegin(max_retries, initial_delay)
    /\ UNCHANGED <<sheet_vars, runs, today_df, combined, master0, read_result,
                   prev_urls, error, retry_args, clean_vars>>

(* lines 337-347: read Master and build `combined` *)
read_master ==
    /\ pc = "read_master"
    /\ \/ /\ combined' = Combine(rows[master_name], today_df)
          /\ read_result' = "ok"
          /\ UNCHANGED swallowed
       \/ \E e \in Errors :
          /\ combined' = today_df
          /\ read_result' = "failed"
          /\ swallowed' = (swallowed \/ Transient(e))
    /\ pc' = "clear_master"
    /\ UNCHANGED <<sheet_vars, runs, today_df, master0, prev_urls, call, error,
                   retry_vars, retry_args, clean_vars>>

(* lines 360-406: the batchUpdate calls, each through retry_batch_update and *)
(* each inside try/except Exception.  Calls 1,2: auto-resize and row height  *)
(* of Master; 3,4: the same for Today; 5: column widths of Today (line 395); *)
(* 6: column widths of Master (line 404); 7: the function returns.           *)
LastCall == 6

(* the call that follows call c; a raise inside the loop body of 360-382     *)
(* skips the rest of that iteration                                          *)
NextCall(c, raised) == IF raised /\ c \in {1, 3} THEN c + 2 ELSE c + 1

(* lines 393 and 403: the width calls are made only when the frame has one   *)
(* of the target columns, which the model leaves open                        *)
NextCalls(c, raised) ==
    LET n == NextCall(c, raised)
    IN  IF n <= 4 THEN {n} ELSE n..(LastCall + 1)

autofit_step ==
    /\ pc = "autofit"
    /\ rb_pc \in {"returned", "raised"}
    /\ swallowed' = (swallowed \/ (rb_pc = "raised" /\ Transient(raised_err)))
    /\ \E n \in NextCalls(call, rb_pc = "raised") :
          IF n > LastCall
          THEN /\ pc' = "done"
               /\ call' = 0
               /\ RetryReset
          ELSE /\ pc' = "autofit"
               /\ call' = n
               /\ RetryBegin(max_retries, initial_delay)
    /\ UNCHANGED <<sheet_vars, runs, today_df, combined, master0, read_result,
                   prev_urls, error, retry_args, clean_vars>>

-----------------------------------------------------------------------------
(* Specifications *)

Next ==
    \/ \E df \in Batches, new_day \in BOOLEAN : save_two_sheets_to_google_sheets(df, new_day)
    \/ \E title \in Titles : get_or_create_worksheet(title)
    \/ \E title \in Titles : clear(title)
    \/ \E title \in Titles : set_with_dataframe(title)
    \/ \E title \in Titles : freeze(title)
    \/ read_master
    \/ retry_batch_update_step
    \/ autofit_step

Spec == Init /\ [][Next]_vars

(* retry_batch_update called on its own with any arguments *)
RetryArgs == (0 - 1)..MaxRetriesArg

InitRetry ==
    /\ worksheets = {}
    /\ rows = [t \in Titles |-> <<>>]
    /\ runs = 0
    /\ pc = "standalone"
    /\ today_df = <<>>
    /\ combined = <<>>
    /\ master0 = <<>>
    /\ read_result = "none"
    /\ prev_urls = <<"-">>
    /\ call = 0
    /\ swallowed = FALSE
    /\ error = NoError
    /\ rb_pc = "idle"
    /\ attempt = 0
    /\ delay = 0
    /\ sleeps = <<>>
    /\ executes = 0
    /\ last_err = NoError
    /\ raised_err = NoError
    /\ max_retries = DefaultMaxRetries
    /\ initial_delay = DefaultInitialDelay
    /\ clean_pc = "off"
    /\ clean_in = [cols |-> {}, rows |-> <<>>]
    /\ clean_df = <<>>
    /\ clean_exc = ""

NextRetry ==
    \/ \E m \in RetryArgs, d \in InitialDelays : retry_batch_update(m, d)
    \/ retry_batch_update_step

SpecRetry == InitRetry /\ [][NextRetry]_vars

-----------------------------------------------------------------------------
(* clean_results, lines 183-222 *)

(* Text is a sequence of one-character strings.  A missing value is one of   *)
(* the two nulls a frame can hold, None and NaN (float).                     *)
None == <<"None">>
NaN == <<"NaN">>
IsNull(x) == x = None \/ x = NaN

upper_letters == <<"A", "B", "C", "D", "E", "F", "G", "H", "I", "J", "K", "L", "M", "N", "O", "P", "Q", "R", "S", "T", "U", "V", "W", "X", "Y", "Z">>
lower_letters == <<"a", "b", "c", "d", "e", "f", "g", "h", "i", "j", "k", "l", "m", "n", "o", "p", "q", "r", "s", "t", "u", "v", "w", "x", "y", "z">>
whitespace == {" ", "\t", "\n"}

(* str.lower(), one character *)
to_lower ==
    [c \in {upper_letters[i] : i \in 1..Len(upper_letters)} |->
        lower_letters[CHOOSE i \in 1..Len(upper_letters) : upper_letters[i] = c]]

lower_char(c) == IF c \in DOMAIN to_lower THEN to_lower[c] ELSE c

(* str.lower() *)
str_lower(text) == [i \in 1..Len(text) |-> lower_char(text[i])]

(* str(text) of lines 195, 199, 204: None becomes "None", NaN becomes "nan" *)
str(x) ==
    IF x = None THEN <<"N", "o", "n", "e">>
    ELSE IF x = NaN THEN <<"n", "a", "n">>
    ELSE x

(* line 187: Series.str.strip(); a null stays null (NaN) *)
RECURSIVE lstrip(_)
lstrip(text) ==
    IF text # <<>> /\ Head(text) \in whitespace THEN lstrip(Tail(text)) ELSE text

RECURSIVE rstrip(_)
rstrip(text) ==
    IF text # <<>> /\ text[Len(text)] \in whitespace
    THEN rstrip(SubSeq(text, 1, Len(text) - 1))
    ELSE text

str_strip(x) == IF IsNull(x) THEN NaN ELSE rstrip(lstrip(x))

(* the Python operator `kw in text` on strings *)
Contains(kw, text) ==
    \E i \in 0..(Len(text) - Len(kw)) : \A k \in 1..Len(kw) : text[i + k] = kw[k]

(* lines 65-130, 133-136, 139-142: the lists, reduced to the entries the     *)
(* sample texts below can meet; no entry of the full lists occurs in "nan"   *)
(* or "none"                                                                 *)
SPAM_KEYWORDS == <<<<"s", "e", "n", "i", "o", "r">>, <<"i", "n", "t", "e", "r", "n">>, <<"t", "e", "a", "m", " ", "l", "e", "a", "d">>>>
SPAM_COMPANIES == <<<<"G", "e", "t", " ", "H", "i", "r", "e", "d">>, <<"C", "r", "o", "s", "s", "o", "v", "e", "r">>>>
SPAM_DESCRIPTION_KEYWORDS == <<<<"w", "e", "e", "k", "l", "y", " ", "p", "a", "y", "o", "u", "t">>, <<"q", "u", "i", "c", "k", " ", "m", "o", "n", "e", "y">>>>

(* lines 190-192 *)
lowered(list) == [i \in 1..Len(list) |-> str_lower(list[i])]
spam_keywords_lower == lowered(SPAM_KEYWORDS)
spam_companies_lower == lowered(SPAM_COMPANIES)
spam_desc_lower == lowered(SPAM_DESCRIPTION_KEYWORDS)

(* any(kw in text for kw in list) *)
any_in(list, text) == \E i \in 1..Len(list) : Contains(list[i], text)

(* lines 194-196 *)
contains_spam_title(text) == any_in(spam_keywords_lower, str_lower(str(text)))

(* lines 198-200 *)
contains_spam_description(text) == any_in(spam_desc_lower, str_lower(str(text)))

(* lines 203-205 *)
company_is_spam(text) == any_in(spam_companies_lower, str_lower(str(text)))

(* lines 207-211: the mask of one row; an absent description or company     *)
(* column is read as a column of "" (df.get with a default Series)          *)
mask(cols, r) ==
    ~ \/ contains_spam_title(r.title)
      \/ contains_spam_description(IF "description" \in cols THEN r.description ELSE <<>>)
      \/ company_is_spam(IF "company" \in cols THEN r.company ELSE <<>>)

(* line 219: pd.to_datetime(errors="coerce"): what does not parse becomes NaT (0) *)
to_datetime(d) == IF d < 0 THEN 0 ELSE d

(* line 220: sort_values("date_posted", ascending=False): descending, NaT    *)
(* last (na_position="last"), rows of equal date in their previous order     *)
SortsBefore(a, b) ==
    a.date_posted # 0 /\ (b.date_posted = 0 \/ a.date_posted > b.date_posted)

Insert(sorted, r) ==
    LET later == {i \in 1..Len(sorted) : SortsBefore(r, sorted[i])}
        k == IF later = {} THEN Len(sorted) + 1
             ELSE CHOOSE i \in later : \A j \in later : i <= j
    IN  SubSeq(sorted, 1, k - 1) \o <<r>> \o SubSeq(sorted, k, Len(sorted))

RECURSIVE sort_values(_)
sort_values(s) ==
    IF s = <<>> THEN <<>>
    ELSE Insert(sort_values(SubSeq(s, 1, Len(s) - 1)), s[Len(s)])

(* df[mask] *)
filter(cols, s) == SelectSeq(s, LAMBDA r : mask(cols, r))

(* line 187 applied to every row *)
strip_titles(s) == [i \in 1..Len(s) |-> [s[i] EXCEPT !.title = str_strip(s[i].title)]]

(* line 219 applied to every row *)
parse_dates(s) ==
    [i \in 1..Len(s) |-> [s[i] EXCEPT !.date_posted = to_datetime(s[i].date_posted)]]

(* Inputs of clean_results *)
MaxCleanBatch == 2  \* longest frame passed to clean_results

Columns == {"title", "company", "description", "date_posted"}
ColumnSets == {Columns} \cup {Columns \ {c} : c \in Columns}

TitleSamples == {<<"S", "e", "n", "i", "o", "r", " ", "D", "e", "v">>, <<"I", "n", "t", "e", "r", "n", "a", "l", " ", "T", "o", "o", "l", "s">>, <<" ", "M", "L", " ", "E", "n", "g", "i", "n", "e", "e", "r", " ">>, None}
CompanySamples == {<<"G", "e", "t", " ", "H", "i", "r", "e", "d">>, <<"G", "e", "t", "-", "H", "i", "r", "e", "d", ".">>, <<"C", "r", "o", "s", "s", "o", "v", "e", "r", " ", "H", "e", "a", "l", "t", "h">>, None}
DescriptionSamples == {<<"S", "e", "n", "i", "o", "r", " ", "t", "e", "a", "m">>, <<"Q", "u", "i", "c", "k", " ", "M", "o", "n", "e", "y">>, <<"P", "y", "t", "h", "o", "n">>, NaN}
CleanDates == {0 - 1, 1, 2}

(* the rows a frame with the columns cols can hold; a column that is absent *)
(* has no values, written "" and 0 in the row                               *)
CleanRecords(cols) ==
    [job_url : Urls,
     title : IF "title" \in cols THEN TitleSamples ELSE {<<>>},
     company : IF "company" \in cols THEN CompanySamples ELSE {<<>>},
     description : IF "description" \in cols THEN DescriptionSamples ELSE {<<>>},
     date_posted : IF "date_posted" \in cols THEN CleanDates ELSE {0}]

(* the frames with the columns cols and n rows *)
CleanFrames(cols, n) == [cols : {cols}, rows : [1..n -> CleanRecords(cols)]]

(* lines 183-187: the call with the frame df, the early return on an empty   *)
(* frame, then df["title"], which raises KeyError when the frame has no     *)
(* title column                                                             *)
clean_results(df) ==
    /\ clean_pc = "idle"
    /\ clean_in' = df
    /\ IF Len(df.rows) = 0
       THEN /\ clean_pc' = "returned"
            /\ clean_df' = df.rows
            /\ UNCHANGED clean_exc
       ELSE IF "title" \notin df.cols
       THEN /\ clean_pc' = "raised"
            /\ clean_exc' = "KeyError"
            /\ clean_df' = df.rows
       ELSE /\ clean_df' = strip_titles(df.rows)
            /\ clean_pc' = "mask"
            /\ UNCHANGED clean_exc
    /\ UNCHANGED <<sheet_vars, run_vars, retry_vars, retry_args>>

(* lines 189-212 *)
clean_results_mask ==
    /\ clean_pc = "mask"
    /\ clean_df' = filter(clean_in.cols, clean_df)
    /\ clean_pc' = "dedup"
    /\ UNCHANGED <<sheet_vars, run_vars, retry_vars, retry_args, clean_in, clean_exc>>

(* lines 214-215 *)
clean_results_dedup ==
    /\ clean_pc = "dedup"
    /\ clean_df' = drop_duplicates(clean_df)
    /\ clean_pc' = "sort"
    /\ UNCHANGED <<sheet_vars, run_vars, retry_vars, retry_args, clean_in, clean_exc>>

(* lines 217-222 *)
clean_results_sort ==
    /\ clean_pc = "sort"
    /\ clean_df' = IF "date_posted" \in clean_in.cols
                   THEN sort_values(parse_dates(clean_df))
                   ELSE clean_df
    /\ clean_pc' = "returned"
    /\ UNCHANGED <<sheet_vars, run_vars, retry_vars, retry_args, clean_in, clean_exc>>

InitClean ==
    /\ worksheets = {}
    /\ rows = [t \in Titles |-> <<>>]
    /\ runs = 0
    /\ pc = "standalone"
    /\ today_df = <<>>
    /\ combined = <<>>
    /\ master0 = <<>>
    /\ read_result = "none"
    /\ prev_urls = <<"-">>
    /\ call = 0
    /\ swallowed = FALSE
    /\ error = NoError
    /\ rb_pc = "idle"
    /\ attempt = 0
    /\ delay = 0
    /\ sleeps = <<>>
    /\ executes = 0
    /\ last_err = NoError
    /\ raised_err = NoError
    /\ max_retries = DefaultMaxRetries
    /\ initial_delay = DefaultInitialDelay
    /\ clean_pc = "idle"
    /\ clean_in = [cols |-> {}, rows |-> <<>>]
    /\ clean_df = <<>>
    /\ clean_exc = ""

(* line 503: clean_results is handed a frame; a caller can pass any frame *)
call_clean_results ==
    /\ clean_pc = "idle"
    /\ \E cols \in ColumnSets, n \in 0..MaxCleanBatch :
          \E df \in CleanFrames(cols, n) :
             clean_results([df EXCEPT !.rows = SubSeq(df.rows, 1, n)])

NextClean ==
    \/ call_clean_results
    \/ clean_results_mask
    \/ clean_results_dedup
    \/ clean_results_sort

SpecClean == InitClean /\ [][NextClean]_vars

-----------------------------------------------------------------------------
(* Properties *)

Master == rows[master_name]
Today == rows[today_name]

(* the run has returned from save_two_sheets_to_google_sheets without raising *)
RunCompleted == pc = "done"

(* line 350 has returned: Master holds what this run wrote *)
MasterWritten == pc \in {"freeze_master", "autofit", "done"}

(* the record a worksheet stores for job_url u: the first row carrying it *)
Stored(s, u) == s[CHOOSE i \in 1..Len(s) :
                     s[i].job_url = u /\ \A j \in 1..(i - 1) : s[j].job_url # u]

(* date_posted descending, rows without a date after all dated rows *)
SortedByDateDesc(s) ==
    \A i, j \in 1..Len(s) :
        i < j => \/ s[j].date_posted = 0
                 \/ (s[i].date_posted # 0 /\ s[i].date_posted >= s[j].date_posted)

RECURSIVE Pow2(_)
Pow2(n) == IF n = 0 THEN 1 ELSE 2 * Pow2(n - 1)

\* C1: whether or not the read of Master raises, every job_url that was in
\* Master before a run is still in Master after the run.
C1_HistoryNeverWiped ==
    RunCompleted => UrlsOf(master0) \subseteq UrlsOf(Master)

\* C2: re-running with a batch of the same job_urls as the previous completed
\* run leaves Master with the same job_urls and the same stored record for each.
C2_Idempotent ==
    (RunCompleted /\ prev_urls = UrlColumn(today_df)) =>
        /\ UrlsOf(Master) = UrlsOf(master0)
        /\ \A u \in UrlsOf(master0) : Stored(Master, u) = Stored(master0, u)

\* C3: the Today worksheet holds exactly the records of today's batch whose
\* job_url is not in the existing Master.
C3_TodayIsDelta ==
    RunCompleted =>
        Today = SelectSeq(today_df, LAMBDA r : r.job_url \notin UrlsOf(master0))

\* C4: after any run, for any existing Master and any batch, the written
\* Master holds exactly one record per distinct job_url.
C4_OneRecordPerUrl ==
    RunCompleted =>
        /\ UrlsOf(today_df) \subseteq UrlsOf(Master)
        /\ \A i, j \in 1..Len(Master) :
              i # j => Master[i].job_url # Master[j].job_url

\* C5: when the read of Master does not fail (a Master worksheet that did not
\* exist is created and read as empty), the job_urls of the written Master are
\* those of the existing Master united with those of today's batch.
C5_MasterIsUnion ==
    (MasterWritten /\ read_result = "ok") =>
        /\ master_name \in worksheets
        /\ UrlsOf(Master) = UrlsOf(master0) \cup UrlsOf(today_df)

C5_Witness ==
    /\ RunCompleted
    /\ read_result = "ok"
    /\ master0 # <<>>
    /\ UrlsOf(today_df) \cap UrlsOf(master0) # {}
    /\ UrlsOf(today_df) \ UrlsOf(master0) # {}

\* C6: first-seen wins: a run whose batch carries a job_url already in Master
\* with other fields does not overwrite the record stored for that job_url.
C6_FirstSeenWins ==
    RunCompleted =>
        \A u \in UrlsOf(master0) \cap UrlsOf(Master) :
            Stored(Master, u) = Stored(master0, u)

\* C7: the rewrite of Master is atomic: after a failed run Master holds either
\* its previous contents or the complete new contents, never a cleared sheet.
C7_AtomicRewrite ==
    pc = "failed" => (Master = master0 \/ Master = combined)

\* C8: after every run the written Master is ordered by date_posted
\* descending, records without a date last (here even for a batch and an
\* existing Master that are each in that order).
C8_MasterSortedByDate ==
    (RunCompleted /\ SortedByDateDesc(today_df) /\ SortedByDateDesc(master0)) =>
        SortedByDateDesc(Master)

\* C9: a transient failure of a sink operation of the run is never caught with
\* the run going on: a run that completes has swallowed no such failure.
C9_TransientPropagates ==
    RunCompleted => ~swallowed

\* C10: with max_retries >= 1, retry_batch_update makes at most max_retries
\* calls of execute, has slept initial_delay * 2^(k-1) before attempt k+1, and
\* raises the error of the last permitted attempt when that attempt fails.
C10_BoundedBackoff ==
    (max_retries >= 1 /\ rb_pc # "idle") =>
        /\ executes <= max_retries
        /\ rb_pc = "call" => (attempt <= max_retries /\ executes = attempt - 1)
        /\ Len(sleeps) = attempt - 1
        /\ \A k \in 1..Len(sleeps) : sleeps[k] = initial_delay * Pow2(k - 1)
        /\ (executes = max_retries /\ last_err # NoError) =>
              (rb_pc = "raised" /\ raised_err = last_err)

C10_Witness ==
    /\ max_retries = 3
    /\ rb_pc = "raised"
    /\ executes = max_retries
    /\ Len(sleeps) = 2
    /\ raised_err = last_err

(* C16 and C17: which failures retry_batch_update retries, and what a normal *)
(* return means.  R is the class of failures taken as retriable.             *)
RetryPolicy(R(_)) ==
    rb_pc # "idle" =>
        \* a further attempt is made only after a failure of class R
        /\ (rb_pc = "call" /\ attempt > 1) => R(last_err)
        \* a failure outside R is re-raised by the attempt it occurs in:
        \* nothing is slept after it and execute is not called again
        /\ (rb_pc = "raised" /\ ~R(raised_err)) =>
              (raised_err = last_err /\ Len(sleeps) = executes - 1)
        \* a failure of class R is raised only when max_retries attempts were made
        /\ (rb_pc = "raised" /\ R(raised_err)) => executes >= max_retries

Status429or5xx(e) ==
    e.type = "HttpError" /\ (e.status = 429 \/ (500 <= e.status /\ e.status < 600))

\* C16 (as stated): retries happen only on HttpError 429/5xx and on errors
\* whose message mentions a timeout; any other failure is re-raised at once
\* with no sleep; a retriable failure is followed by another attempt while
\* fewer than max_retries attempts have been made.
C16_RetriesAsStated ==
    RetryPolicy(LAMBDA e : Status429or5xx(e) \/ e.timeout_msg)

\* C16 (amended): the same, where the timeout rule applies only to exceptions
\* that are not HttpError; an HttpError of another status is re-raised at once
\* even when its message mentions a timeout.
C16_RetriesOnlyTransient ==
    RetryPolicy(LAMBDA e : Status429or5xx(e) \/ (e.type # "HttpError" /\ e.timeout_msg))

C16_Witness ==
    /\ rb_pc = "raised"
    /\ raised_err.type = "HttpError"
    /\ raised_err.status = 408
    /\ raised_err.timeout_msg
    /\ executes = 2
    /\ Len(sleeps) = 1
    /\ max_retries = 3

\* C17: for every max_retries, zero and negative included, retry_batch_update
\* returns normally only if a call of execute succeeded.
C17_ReturnMeansApplied ==
    rb_pc = "returned" => (executes >= 1 /\ last_err = NoError)

(* The rows clean_results was called with, as the mask reads them (line 187). *)
InputRows == strip_titles(clean_in.rows)

(* clean_results has returned from a frame that had rows *)
CleanReturned == clean_pc = "returned" /\ clean_in.rows # <<>>

(* lines 217-222 applied to the rows s of a frame with the columns cols *)
SortedOutput(cols, s) ==
    IF "date_posted" \in cols THEN sort_values(parse_dates(s)) ELSE s

(* row i of the input is the only row with its job_url *)
OnlyRowOfUrl(i) ==
    \A j \in 1..Len(InputRows) : InputRows[j].job_url = InputRows[i].job_url => j = i

\* C11: the output of clean_results equals keeping the first record of each
\* job_url first and filtering afterwards, so a job_url whose first record
\* the filter rejects is not in the output.
C11_DedupBeforeFilter ==
    CleanReturned =>
        clean_df = SortedOutput(clean_in.cols,
                                filter(clean_in.cols, drop_duplicates(InputRows)))

(* Company normalization as the specification describes it: lowercase,     *)
(* punctuation replaced with spaces, whitespace collapsed.                 *)
punctuation == {",", ".", "-", "_", "/", "&", "'", "(", ")", ":", ";", "!"}

RECURSIVE collapse(_)
collapse(text) ==
    IF Len(text) <= 1 THEN text
    ELSE IF text[1] = " " /\ text[2] = " " THEN collapse(Tail(text))
    ELSE <<text[1]>> \o collapse(Tail(text))

Normalize(text) ==
    rstrip(lstrip(collapse([i \in 1..Len(text) |->
        IF text[i] \in punctuation \cup whitespace THEN " " ELSE lower_char(text[i])])))

OnBlocklist(company) ==
    /\ ~IsNull(company)
    /\ \E k \in 1..Len(SPAM_COMPANIES) : Normalize(company) = Normalize(SPAM_COMPANIES[k])

\* C12: a record that the title and description rules let through is rejected
\* exactly when its normalized company name equals a normalized blocklist
\* entry; a company name that only contains a blocklisted name is kept.
C12_CompanyNormalizedExact ==
    (CleanReturned /\ "company" \in clean_in.cols) =>
        \A i \in 1..Len(InputRows) :
            ( /\ OnlyRowOfUrl(i)
              /\ ~contains_spam_title(InputRows[i].title)
              /\ ~contains_spam_description(InputRows[i].description) )
            => (InputRows[i].job_url \notin UrlsOf(clean_df)
                    <=> OnBlocklist(InputRows[i].company))

\* C13: no record whose description contains a keyword of SPAM_KEYWORDS, in
\* any letter case, is left in the output of clean_results.
C13_DescriptionKeywordRejected ==
    (CleanReturned /\ "description" \in clean_in.cols) =>
        \A i \in 1..Len(clean_df) :
            ~IsNull(clean_df[i].description) =>
                ~any_in(spam_keywords_lower, str_lower(clean_df[i].description))

(* Keyword matching as the specification describes it: a keyword with     *)
(* internal whitespace matches as a substring, a single-token keyword only *)
(* where no letter or digit precedes or follows it.                        *)
digits == {"0", "1", "2", "3", "4", "5", "6", "7", "8", "9"}
word_chars == {lower_letters[i] : i \in 1..26} \cup {upper_letters[i] : i \in 1..26} \cup digits

ContainsWord(kw, text) ==
    \E i \in 0..(Len(text) - Len(kw)) :
        /\ \A k \in 1..Len(kw) : text[i + k] = kw[k]
        /\ i > 0 => text[i] \notin word_chars
        /\ i + Len(kw) < Len(text) => text[i + Len(kw) + 1] \notin word_chars

KeywordMatches(kw, text) ==
    IF \E k \in 1..Len(kw) : kw[k] \in whitespace
    THEN Contains(kw, text)
    ELSE ContainsWord(kw, text)

\* C14: a record that the company and description rules let through is
\* rejected exactly when a keyword matches its title, a single-token keyword
\* matching only at word boundaries ("intern" does not match "Internal").
C14_WordBoundaryMatch ==
    (CleanReturned /\ "title" \in clean_in.cols) =>
        \A i \in 1..Len(InputRows) :
            ( /\ OnlyRowOfUrl(i)
              /\ ~IsNull(InputRows[i].title)
              /\ ~company_is_spam(InputRows[i].company)
              /\ ~contains_spam_description(InputRows[i].description) )
            => (InputRows[i].job_url \notin UrlsOf(clean_df)
                    <=> \E k \in 1..Len(spam_keywords_lower) :
                            KeywordMatches(spam_keywords_lower[k],
                                           str_lower(InputRows[i].title)))

(* the frame has a null title, company or description, or lacks one of    *)
(* these columns                                                          *)
Malformed(df) ==
    \/ {"title", "company", "description"} \ df.cols # {}
    \/ \E i \in 1..Len(df.rows) :
          IsNull(df.rows[i].title) \/ IsNull(df.rows[i].company) \/ IsNull(df.rows[i].description)

(* the row r with every null text field replaced by the empty string *)
Blank(r) ==
    [r EXCEPT !.title = IF IsNull(@) THEN <<>> ELSE @,
              !.company = IF IsNull(@) THEN <<>> ELSE @,
              !.description = IF IsNull(@) THEN <<>> ELSE @]

\* C15: on a frame with a null or absent title, company or description
\* clean_results never raises, and it keeps the records it would keep if
\* every missing value were the empty string.
C15_MalformedNeverFatal ==
    (clean_pc # "idle" /\ Malformed(clean_in)) =>
        /\ clean_pc # "raised"
        /\ CleanReturned =>
              UrlColumn(clean_df) =
                  UrlColumn(SortedOutput(clean_in.cols,
                      drop_duplicates(filter(Columns,
                          [i \in 1..Len(InputRows) |-> Blank(InputRows[i])]))))

=============================================================================
